---- MODULE Spec2Model ----
\* A model of nifti/analyze.py: the Analyze header (a fixed-layout binary
\* block read under a byte order, plus an ancillary mapping), its byte-order
\* inference and conversion, its validation battery and its accessors.
\*
\* A header's block is kept as the BYTES of each field, exactly as numpy keeps
\* them; a field is read by decoding its bytes under the header's byte order
\* and written by encoding under it.  float32 values are kept as their IEEE-754
\* bit pattern, most significant byte first.
EXTENDS Integers, Sequences, FiniteSets, TLC

VARIABLES
    objs,    \* slot -> NULL or an AnalyzeHeader object: [data, order, extra, made]
    mem,     \* address -> block (the buffers numpy arrays and byte strings live in)
    dicts,   \* address -> mapping (the dict objects behind extra_data)
    last,    \* the last operation: its name, target, error raised, reports, state before
    nops,    \* number of operations performed so far
    probe,   \* the (dim0, sizeof_hdr) pair of an untyped buffer, and the guess made for it
    fileobj, \* the stream handed to the data reading and writing methods
    img,     \* an AnalyzeImage: its cached data, its file mapping, the reads made for it
    imageglobals,       \* the module imageglobals: [error_level]
    check_fix_defaults  \* the default argument values of check_fix: [error_level]

vars == <<objs, mem, dicts, last, nops, probe, fileobj, img, imageglobals,
          check_fix_defaults>>

\* the variables the header operations do not touch
env == <<fileobj, img, imageglobals, check_fix_defaults>>

\* ---------------------------------------------------------------- bounds
MaxOps == 3

\* ------------------------------------------------------- program constants
HdrSize == 348
SwappedHdrSize == 1543569408
DefaultDatatype == 16
DefaultBitpix == 32
LevelSizeof == 30
LevelDatatype == 40
LevelBitpix == 10
LevelPixdims == 40
MaxNdim == 7

native_code == "<"
swapped_code == ">"
NULL == [none |-> TRUE]

\* ------------------------------------------------------------ byte codecs
Rev2(b) == <<b[2], b[1]>>
Rev4(b) == <<b[4], b[3], b[2], b[1]>>

\* numpy 'i2': two's complement, 16 bits
EncI2(v, order) ==
    LET u  == v % 65536
        lo == u % 256
        hi == u \div 256
    IN  IF order = "<" THEN <<lo, hi>> ELSE <<hi, lo>>

DecI2(b, order) ==
    LET u == IF order = "<" THEN b[1] + 256 * b[2] ELSE b[2] + 256 * b[1]
    IN  IF u >= 32768 THEN u - 65536 ELSE u

\* numpy 'i4': two's complement, 32 bits (computed bytewise: no wide integers)
EncI4(v, order) ==
    LET low  == v % 16777216
        top  == ((v - low) \div 16777216) % 256
        b0   == low % 256
        b1   == (low \div 256) % 256
        b2   == low \div 65536
    IN  IF order = "<" THEN <<b0, b1, b2, top>> ELSE <<top, b2, b1, b0>>

DecI4(b, order) ==
    LET m   == IF order = "<" THEN b ELSE Rev4(b)
        top == IF m[4] >= 128 THEN m[4] - 256 ELSE m[4]
    IN  m[1] + 256 * m[2] + 65536 * m[3] + 16777216 * top

\* numpy 'f4': the value is its bit pattern, most significant byte first
EncF4(f, order) == IF order = ">" THEN f ELSE Rev4(f)
DecF4(b, order) == IF order = ">" THEN b ELSE Rev4(b)

\* float32 patterns of the small numbers the operations are fed
F32(n) ==
    CASE n = 0  -> <<0, 0, 0, 0>>
      [] n = 1  -> <<63, 128, 0, 0>>
      [] n = 2  -> <<64, 0, 0, 0>>
      [] n = 3  -> <<64, 64, 0, 0>>
      [] n = -1 -> <<191, 128, 0, 0>>
      [] n = -2 -> <<192, 0, 0, 0>>
      [] n = -3 -> <<192, 64, 0, 0>>
NegZero == <<128, 0, 0, 0>>

FIsNaN(f) == /\ f[1] % 128 = 127
             /\ f[2] >= 128
             /\ (f[2] > 128 \/ f[3] > 0 \/ f[4] > 0)
FIsZero(f) == f[1] % 128 = 0 /\ f[2] = 0 /\ f[3] = 0 /\ f[4] = 0
\* f < 0 in IEEE-754: sign bit set, not a zero, not a NaN
FNeg(f) == f[1] >= 128 /\ ~FIsZero(f) /\ ~FIsNaN(f)
\* np.abs: clear the sign bit
FAbs(f) == <<f[1] % 128, f[2], f[3], f[4]>>
\* numeric equality of two float32 values
FEq(f, g) == /\ ~FIsNaN(f) /\ ~FIsNaN(g)
             /\ (f = g \/ (FIsZero(f) /\ FIsZero(g)))

\* int(f), float(f) of a float32 holding a small whole number
IntOfF32(f) == CHOOSE n \in -3..3 : FEq(F32(n), f)

\* ------------------------------------------------------------- the block
\* header_dtype, reduced to the fields the operations read or write, and one
\* character field.  dim and pixdim have 8 elements; the source's index i is
\* element i+1 here.
Idx8 == 1..8

\* the block of np.zeros((), dtype) with the defaults of _empty_headerdata
EmptyBlock(order) ==
    [ sizeof_hdr |-> EncI4(HdrSize, order),
      dim        |-> [i \in Idx8 |-> EncI2(IF i = 1 THEN 0 ELSE 1, order)],
      datatype   |-> EncI2(DefaultDatatype, order),
      bitpix     |-> EncI2(DefaultBitpix, order),
      pixdim     |-> [i \in Idx8 |-> EncF4(F32(1), order)],
      vox_offset |-> EncF4(F32(0), order),
      descrip    |-> <<0, 0>> ]

\* len(binaryblock): the fields above and the unmodelled ones take a fixed
\* number of the 348 bytes; the
\* character field stands for the rest, so a buffer of the wrong size is one
\* whose character field has not exactly two elements
BlockLen(blk) == (HdrSize - 2) + Len(blk.descrip)

\* ndarray.byteswap() of the structured scalar: every numeric element has its
\* bytes reversed, character fields are left as they are
byteswap(blk) ==
    [ sizeof_hdr |-> Rev4(blk.sizeof_hdr),
      dim        |-> [i \in Idx8 |-> Rev2(blk.dim[i])],
      datatype   |-> Rev2(blk.datatype),
      bitpix     |-> Rev2(blk.bitpix),
      pixdim     |-> [i \in Idx8 |-> Rev4(blk.pixdim[i])],
      vox_offset |-> Rev4(blk.vox_offset),
      descrip    |-> blk.descrip ]

\* endian_codes of volumeutils: aliases to '<' or '>'
endian_codes(e) ==
    CASE e \in {"<", "native"}  -> "<"
      [] e \in {">", "swapped"} -> ">"

Opposite(order) == IF order = "<" THEN ">" ELSE "<"

\* A header VALUE: what an AnalyzeHeader object holds once its references are
\* followed: [order, block, extra].  extra is a set of <<key, value>> pairs.
HdrVal(order, blk, extra) == [order |-> order, block |-> blk, extra |-> extra]

\* field reads (__getitem__ on canonical names), decoded under the byte order
GetSizeofHdr(v) == DecI4(v.block.sizeof_hdr, v.order)
GetDim(v, i)    == DecI2(v.block.dim[i + 1], v.order)
GetDatatype(v)  == DecI2(v.block.datatype, v.order)
GetBitpix(v)    == DecI2(v.block.bitpix, v.order)
GetPixdim(v, i) == DecF4(v.block.pixdim[i + 1], v.order)
GetVoxOffset(v) == DecF4(v.block.vox_offset, v.order)

\* field writes (__setitem__ on canonical names), encoded under the byte order
PutSizeofHdr(v, x) == [v EXCEPT !.block.sizeof_hdr = EncI4(x, v.order)]
PutDim(v, i, x)    == [v EXCEPT !.block.dim[i + 1] = EncI2(x, v.order)]
PutDatatype(v, x)  == [v EXCEPT !.block.datatype = EncI2(x, v.order)]
PutBitpix(v, x)    == [v EXCEPT !.block.bitpix = EncI2(x, v.order)]
PutPixdim(v, i, f) == [v EXCEPT !.block.pixdim[i + 1] = EncF4(f, v.order)]
PutVoxOffset(v, f) == [v EXCEPT !.block.vox_offset = EncF4(f, v.order)]

\* the endianness property
endianness(v) == IF v.order = native_code THEN native_code ELSE swapped_code

\* the binaryblock property: tostring() of the array, a new byte string
binaryblock(v) == v.block

\* ------------------------------------------------ data type code registry
\* _dtdefs: (code, label, numpy type)
dtdefs ==
    << [code |-> 0,   label |-> "none",      type |-> "void"],
       [code |-> 1,   label |-> "binary",    type |-> "void"],
       [code |-> 2,   label |-> "uint8",     type |-> "uint8"],
       [code |-> 4,   label |-> "int16",     type |-> "int16"],
       [code |-> 8,   label |-> "int32",     type |-> "int32"],
       [code |-> 16,  label |-> "float32",   type |-> "float32"],
       [code |-> 32,  label |-> "complex64", type |-> "complex64"],
       [code |-> 64,  label |-> "float64",   type |-> "float64"],
       [code |-> 128, label |-> "RGB",       type |-> "RGB"],
       [code |-> 255, label |-> "all",       type |-> "void"] >>

DtRows == {dtdefs[i] : i \in DOMAIN dtdefs}
DtCodes == {r.code : r \in DtRows}

\* numpy facts about the types of the table: np.dtype(t).itemsize,
\* np.dtype(t).type is np.void, bool(np.dtype(t).fields)
NpItemsize(t) ==
    CASE t = "void"      -> 0
      [] t = "uint8"     -> 1
      [] t = "int16"     -> 2
      [] t = "int32"     -> 4
      [] t = "float32"   -> 4
      [] t = "complex64" -> 8
      [] t = "float64"   -> 8
      [] t = "RGB"       -> 3
NpTypeIsVoid(t) == t \in {"void", "RGB"}
NpHasFields(t)  == t = "RGB"

\* A key handed to the registry: a code, a label or a numpy type
CodeKey(n)  == [kind |-> "code",  num |-> n, name |-> ""]
LabelKey(s) == [kind |-> "label", num |-> 0, name |-> s]
TypeKey(s)  == [kind |-> "type",  num |-> 0, name |-> s]

\* make_dt_codes(_dtdefs): every code, label and type is an alias of its row's
\* code; a type shared by several rows keeps the code of the last row
KeyRows(key) ==
    {r \in DtRows : \/ key.kind = "code"  /\ r.code = key.num
                    \/ key.kind = "label" /\ r.label = key.name
                    \/ key.kind = "type"  /\ r.type = key.name}
HasKey(key) == KeyRows(key) # {}
CodeOfKey(key) == CHOOSE c \in {r.code : r \in KeyRows(key)} :
                      \A d \in {r.code : r \in KeyRows(key)} : d <= c
\* data_type_codes.dtype[code]
HasCode(code) == code \in DtCodes
TypeOfCode(code) == (CHOOSE r \in DtRows : r.code = code).type

\* dtype.newbyteorder(endianness) of a registry dtype: "|" when the elements
\* are single bytes or opaque, "=" native order, "S" swapped order
newbyteorder(t, e) ==
    [type |-> t,
     byteorder |-> IF t \in {"void", "uint8", "RGB"} THEN "|"
                   ELSE IF e = native_code THEN "=" ELSE "S"]
\* np.dtype(t) of a type of the table
NpDtype(t) == newbyteorder(t, native_code)

\* ----------------------------------------------------------------- reports
\* batteryrunners.Report(obj, error): level 0, no messages
Report(error) ==
    [level |-> 0, problem_msg |-> "", fix_msg |-> "", fix_problem_msg |-> "",
     error |-> error]

\* faulty variant: the repair made whatever the fix flag says
chk_sizeof_hdr_always_fix(hdr, fix) ==
    IF GetSizeofHdr(hdr) = HdrSize
    THEN [hdr |-> hdr, rep |-> Report("HeaderDataError")]
    ELSE [hdr |-> PutSizeofHdr(hdr, HdrSize),
          rep |-> [Report("HeaderDataError") EXCEPT
                      !.problem_msg = "sizeof_hdr should be 348",
                      !.level = IF fix THEN 0 ELSE LevelSizeof]]

_chk_sizeof_hdr(hdr, fix) ==
    LET ret == Report("HeaderDataError") IN
    IF GetSizeofHdr(hdr) = HdrSize
    THEN [hdr |-> hdr, rep |-> ret]
    ELSE IF fix
         THEN [hdr |-> PutSizeofHdr(hdr, HdrSize),
               rep |-> [ret EXCEPT !.problem_msg = "sizeof_hdr should be 348",
                                   !.fix_msg = "set sizeof_hdr to 348"]]
         ELSE [hdr |-> hdr,
               rep |-> [ret EXCEPT !.problem_msg = "sizeof_hdr should be 348",
                                   !.level = LevelSizeof]]

_chk_datatype(hdr, fix) ==
    LET ret  == Report("HeaderDataError")
        code == GetDatatype(hdr)
        r1   == IF ~HasCode(code)
                THEN [ret EXCEPT !.level = LevelDatatype,
                                 !.problem_msg = "data code not recognized"]
                ELSE IF NpTypeIsVoid(TypeOfCode(code))
                     THEN [ret EXCEPT !.level = LevelDatatype,
                                      !.problem_msg = "data code not supported"]
                     ELSE ret
    IN  [hdr |-> hdr,
         rep |-> IF fix THEN [r1 EXCEPT !.fix_problem_msg = "not attempting fix"]
                        ELSE r1]

_chk_bitpix(hdr, fix) ==
    LET code == GetDatatype(hdr) IN
    IF ~HasCode(code)
    THEN [hdr |-> hdr,
          rep |-> [Report("HeaderDataError") EXCEPT
                      !.level = LevelBitpix,
                      !.problem_msg = "no valid datatype to fix bitpix",
                      !.fix_msg = IF fix THEN "no way to fix bitpix" ELSE ""]]
    ELSE LET bitpix == NpItemsize(TypeOfCode(code)) * 8
             ret    == Report("None")
         IN  IF bitpix = GetBitpix(hdr)
             THEN [hdr |-> hdr, rep |-> ret]
             ELSE IF fix
                  THEN [hdr |-> PutBitpix(hdr, bitpix),
                        rep |-> [ret EXCEPT
                                    !.problem_msg = "bitpix does not match datatype",
                                    !.fix_msg = "setting bitpix to match datatype"]]
                  ELSE [hdr |-> hdr,
                        rep |-> [ret EXCEPT
                                    !.problem_msg = "bitpix does not match datatype",
                                    !.level = LevelBitpix]]

\* faulty variant: only the first spacing made non-negative
chk_pixdims_first_only(hdr, fix) ==
    LET ret == Report("HeaderDataError") IN
    IF ~(\E i \in 1..3 : FNeg(GetPixdim(hdr, i)))
    THEN [hdr |-> hdr, rep |-> ret]
    ELSE IF fix
         THEN [hdr |-> PutPixdim(hdr, 1, FAbs(GetPixdim(hdr, 1))),
               rep |-> [ret EXCEPT
                           !.problem_msg = "pixdim[1,2,3] should be positive",
                           !.fix_msg = "setting to abs of pixdim values"]]
         ELSE [hdr |-> hdr,
               rep |-> [ret EXCEPT
                           !.problem_msg = "pixdim[1,2,3] should be positive",
                           !.level = LevelPixdims]]

_chk_pixdims(hdr, fix) ==
    LET ret == Report("HeaderDataError") IN
    IF ~(\E i \in 1..3 : FNeg(GetPixdim(hdr, i)))
    THEN [hdr |-> hdr, rep |-> ret]
    ELSE IF fix
         THEN [hdr |-> PutPixdim(PutPixdim(PutPixdim(hdr,
                           1, FAbs(GetPixdim(hdr, 1))),
                           2, FAbs(GetPixdim(hdr, 2))),
                           3, FAbs(GetPixdim(hdr, 3))),
               rep |-> [ret EXCEPT
                           !.problem_msg = "pixdim[1,2,3] should be positive",
                           !.fix_msg = "setting to abs of pixdim values"]]
         ELSE [hdr |-> hdr,
               rep |-> [ret EXCEPT
                           !.problem_msg = "pixdim[1,2,3] should be positive",
                           !.level = LevelPixdims]]

\* _get_checks: the check functions, in order
_get_checks == <<"sizeof_hdr", "datatype", "bitpix", "pixdims">>

RunCheck(name, hdr, fix) ==
    CASE name = "sizeof_hdr" -> _chk_sizeof_hdr(hdr, fix)
      [] name = "datatype"   -> _chk_datatype(hdr, fix)
      [] name = "bitpix"     -> _chk_bitpix(hdr, fix)
      [] name = "pixdims"    -> _chk_pixdims(hdr, fix)

\* BatteryRunner: every check in turn on the same object, collecting reports
RECURSIVE BatteryRun(_, _, _, _)
BatteryRun(checks, hdr, fix, reports) ==
    IF checks = <<>>
    THEN [hdr |-> hdr, reports |-> reports]
    ELSE LET r == RunCheck(Head(checks), hdr, fix)
         IN  BatteryRun(Tail(checks), r.hdr, fix, Append(reports, r.rep))

\* Report.log_raise(logger, error_level): raise when the level reaches the threshold
log_raise(rep, error_level) ==
    IF rep.level # 0 /\ rep.level >= error_level /\ rep.error # "None"
    THEN rep.error ELSE ""

\* the first error raised by logging the reports in order, "" when none
RECURSIVE FirstRaise(_, _)
FirstRaise(reports, error_level) ==
    IF reports = <<>> THEN ""
    ELSE LET e == log_raise(Head(reports), error_level)
         IN  IF e # "" THEN e ELSE FirstRaise(Tail(reports), error_level)

\* what a run of the battery over checks does, in order: one call per check
BatteryEvents(checks) == [k \in 1..Len(checks) |-> <<"check", checks[k]>>]

\* for report in reports: report.log_raise(...), from report k on: the calls
\* made, up to the one that raises
RECURSIVE LogEvents(_, _, _)
LogEvents(reports, error_level, k) ==
    IF k > Len(reports) THEN <<>>
    ELSE IF log_raise(reports[k], error_level) # ""
    THEN << <<"log_raise", k>> >>
    ELSE << <<"log_raise", k>> >> \o LogEvents(reports, error_level, k + 1)

\* faulty variant: each report logged as soon as its check has run, so that a
\* raise leaves the later checks undone
RECURSIVE CheckAndLog(_, _, _, _, _)
CheckAndLog(checks, hdr, error_level, reports, events) ==
    IF checks = <<>>
    THEN [hdr |-> hdr, reports |-> reports, err |-> "", events |-> events]
    ELSE LET r  == RunCheck(Head(checks), hdr, TRUE)
             e  == log_raise(r.rep, error_level)
             ev == events \o << <<"check", Head(checks)>>,
                                <<"log_raise", Len(reports) + 1>> >>
         IN  IF e # ""
             THEN [hdr |-> r.hdr, reports |-> Append(reports, r.rep), err |-> e,
                   events |-> ev]
             ELSE CheckAndLog(Tail(checks), r.hdr, error_level,
                              Append(reports, r.rep), ev)

check_fix_log_as_you_go(hdr, error_level) ==
    CheckAndLog(_get_checks, hdr, error_level, <<>>, <<>>)

\* check_fix: run the battery with repair, then log every report; events is
\* the sequence of calls made
check_fix(hdr, error_level) ==
    LET b == BatteryRun(_get_checks, hdr, TRUE, <<>>)
    IN  [hdr |-> b.hdr, reports |-> b.reports,
         err |-> FirstRaise(b.reports, error_level),
         events |-> BatteryEvents(_get_checks)
                       \o LogEvents(b.reports, error_level, 1)]

\* BatteryRunner.check_only as diagnose_binaryblock uses it: no repair
check_only(hdr) ==
    LET b == BatteryRun(_get_checks, hdr, FALSE, <<>>)
    IN  [hdr |-> b.hdr, reports |-> b.reports, err |-> ""]

\* ------------------------------------------------------ header operations
\* Each operation is a function of the header value (and its arguments) to the
\* header value afterwards and the error raised ("" when it returns normally).

\* faulty variant: the sizeof_hdr tie-break tried before the rank
guessed_endian_size_first(blk) ==
    IF DecI4(blk.sizeof_hdr, native_code) = SwappedHdrSize
    THEN swapped_code
    ELSE LET dim0 == DecI2(blk.dim[1], native_code)
         IN  IF 0 <= dim0 /\ dim0 <= MaxNdim THEN native_code ELSE swapped_code

\* faulty variant: the rank alone, without the sizeof_hdr tie-break at rank 0
guessed_endian_rank_only(blk) ==
    LET dim0 == DecI2(blk.dim[1], native_code) IN
    IF 0 <= dim0 /\ dim0 <= MaxNdim THEN native_code ELSE swapped_code

\* _guessed_endian: hdr is the buffer read under native order
_guessed_endian(blk) ==
    LET dim0 == DecI2(blk.dim[1], native_code) IN
    IF dim0 = 0
    THEN IF DecI4(blk.sizeof_hdr, native_code) = SwappedHdrSize
         THEN swapped_code ELSE native_code
    ELSE IF 1 <= dim0 /\ dim0 <= MaxNdim
         THEN native_code
         ELSE swapped_code

\* _empty_headerdata(endianness); None gives the native dtype
_empty_headerdata(e) ==
    EmptyBlock(IF e = "None" THEN native_code ELSE endian_codes(e))

\* __init__(binaryblock, endianness, check) with no extra_data given: a new
\* dict, the block copied and read under the given or guessed order, then
\* check_fix under the threshold in force.  hdr is NULL when it raises.
__init__(bb, e, check, error_level) ==
    IF BlockLen(bb) # HdrSize
    THEN [hdr |-> NULL, err |-> "HeaderDataError", reports |-> <<>>]
    ELSE LET order == IF e = "None" THEN _guessed_endian(bb) ELSE endian_codes(e)
             v     == HdrVal(order, bb, {})
         IN  IF ~check
             THEN [hdr |-> v, err |-> "", reports |-> <<>>]
             ELSE LET r == check_fix(v, error_level)
                  IN  [hdr |-> IF r.err = "" THEN r.hdr ELSE NULL,
                       err |-> r.err, reports |-> r.reports]

\* __init__(None, endianness): the default header, never checked
init_empty(e) ==
    HdrVal(IF e = "None" THEN native_code ELSE endian_codes(e),
           _empty_headerdata(e), {})

\* as_byteswapped(endianness)
as_byteswapped(v, e) ==
    LET e1 == endian_codes(e) IN
    IF e1 = endianness(v)
    THEN __init__(binaryblock(v), endianness(v), FALSE, 0).hdr
    ELSE __init__(byteswap(v.block), e1, FALSE, 0).hdr

\* faulty variant: the blocks compared as they are, whatever the byte orders
eq_no_byteswap(self, other) ==
    binaryblock(self) = binaryblock(other) /\ self.extra = other.extra

\* __eq__ and __ne__
__eq__(self, other) ==
    LET this_end == endianness(self)
        this_bb  == binaryblock(self)
    IN  IF this_end = endianness(other)
        THEN this_bb = binaryblock(other) /\ self.extra = other.extra
        ELSE this_bb = byteswap(other.block) /\ self.extra = other.extra

__ne__(self, other) == ~__eq__(self, other)

\* __setitem__(item, value), and writes through header_data[item][idx]:
\* canonical names write the block, any other name goes to extra_data
CanonicalNames == {"sizeof_hdr", "dim", "datatype", "bitpix", "pixdim",
                   "vox_offset", "descrip"}

__setitem__(v, item, idx, value) ==
    CASE item = "sizeof_hdr" -> PutSizeofHdr(v, value)
      [] item = "dim"        -> PutDim(v, idx, value)
      [] item = "datatype"   -> PutDatatype(v, value)
      [] item = "bitpix"     -> PutBitpix(v, value)
      [] item = "pixdim"     -> PutPixdim(v, idx, value)
      [] item = "vox_offset" -> PutVoxOffset(v, value)
      [] item = "descrip"    -> [v EXCEPT !.block.descrip = value]
      [] OTHER               ->
            [v EXCEPT !.extra = {p \in v.extra : p[1] # item} \cup {<<item, value>>}]

\* the indices i (source numbering) of a[1:stop] for an 8-element array,
\* with Python's treatment of a negative or too large stop
SliceFrom1(stop) ==
    LET s1 == IF stop < 0 THEN stop + 8 ELSE stop
        s2 == IF s1 < 0 THEN 0 ELSE IF s1 > 8 THEN 8 ELSE s1
    IN  1..(s2 - 1)

RECURSIVE PutDims(_, _, _)
PutDims(v, shape, i) ==
    IF i > Len(shape) THEN v ELSE PutDims(PutDim(v, i, shape[i]), shape, i + 1)

RECURSIVE PutPixdims(_, _, _)
PutPixdims(v, zooms, i) ==
    IF i > Len(zooms) THEN v ELSE PutPixdims(PutPixdim(v, i, F32(zooms[i])), zooms, i + 1)

\* get_data_shape
get_data_shape(v) ==
    LET ndims == GetDim(v, 0) IN
    IF ndims = 0 THEN <<0>>
    ELSE LET ix == SliceFrom1(ndims + 1)
         IN  [k \in 1..Cardinality(ix) |-> GetDim(v, k)]

\* set_data_shape(shape): dims[:] = 1, dims[0] = ndims, dims[1:ndims+1] = shape;
\* the last assignment raises ValueError when the slice and the shape differ
\* in length, after the first two have been made
set_data_shape(v, shape) ==
    LET ndims == Len(shape)
        v1 == [v EXCEPT !.block.dim = [i \in Idx8 |-> EncI2(1, v.order)]]
        v2 == PutDim(v1, 0, ndims)
    IN  IF Cardinality(SliceFrom1(ndims + 1)) # ndims
        THEN [hdr |-> v2, err |-> "ValueError"]
        ELSE [hdr |-> PutDims(v2, shape, 1), err |-> ""]

\* get_zooms
get_zooms(v) ==
    LET ndim == GetDim(v, 0) IN
    IF ndim = 0 THEN <<>>
    ELSE LET ix == SliceFrom1(ndim + 1)
         IN  [k \in 1..Cardinality(ix) |-> GetPixdim(v, k)]

\* set_zooms(zooms): zooms are numbers, converted to float32 on assignment
set_zooms(v, zooms) ==
    LET ndim == GetDim(v, 0) IN
    IF Len(zooms) # ndim
    THEN [hdr |-> v, err |-> "HeaderDataError"]
    ELSE IF \E k \in 1..Len(zooms) : zooms[k] < 0
    THEN [hdr |-> v, err |-> "HeaderDataError"]
    ELSE IF Cardinality(SliceFrom1(ndim + 1)) # Len(zooms)
    THEN [hdr |-> v, err |-> "ValueError"]
    ELSE [hdr |-> PutPixdims(v, zooms, 1), err |-> ""]

\* class attribute
default_x_flip == TRUE

\* int16 arithmetic of numpy: hdr['dim'][1:4] - 1 stays a 16-bit integer
WrapI2(x) == DecI2(EncI2(x, native_code), native_code)

\* get_base_affine(): the diagonal of the 3x3 part and the last column of the
\* matrix.  The spacings of the headers met here are whole numbers, kept as
\* integers; the translation -((dim - 1) / 2.0) * zoom is kept as twice its
\* value, -(dim - 1) * zoom, which is a whole number too.
get_base_affine(v) ==
    LET zooms0 == [i \in 1..3 |-> IntOfF32(GetPixdim(v, i))]
        zooms  == IF default_x_flip
                  THEN [zooms0 EXCEPT ![1] = -1 * @]
                  ELSE zooms0
        origin2 == [i \in 1..3 |-> WrapI2(GetDim(v, i) - 1)]
    IN  [diag   |-> zooms,
         trans2 |-> [i \in 1..3 |-> (-1 * origin2[i]) * zooms[i]]]

\* get_data_dtype: KeyError when the code is not in the registry
get_data_dtype(v) ==
    LET code == GetDatatype(v) IN
    IF ~HasCode(code)
    THEN [dtype |-> NULL, err |-> "KeyError"]
    ELSE [dtype |-> newbyteorder(TypeOfCode(code), endianness(v)), err |-> ""]

\* faulty variant: the code written before the test for an unsupported type
set_data_dtype_early_write(v, datatype) ==
    IF ~HasKey(datatype)
    THEN [hdr |-> v, err |-> "HeaderDataError", msg |-> "not recognized"]
    ELSE LET code == CodeOfKey(datatype)
             t    == TypeOfCode(code)
         IN  IF NpTypeIsVoid(t) /\ ~NpHasFields(t)
             THEN [hdr |-> PutDatatype(v, code), err |-> "HeaderDataError",
                   msg |-> "known but not supported"]
             ELSE [hdr |-> PutBitpix(PutDatatype(v, code), NpItemsize(t) * 8),
                   err |-> "", msg |-> ""]

\* set_data_dtype(datatype)
set_data_dtype(v, datatype) ==
    IF ~HasKey(datatype)
    THEN [hdr |-> v, err |-> "HeaderDataError", msg |-> "not recognized"]
    ELSE LET code == CodeOfKey(datatype)
             t    == TypeOfCode(code)
         IN  IF NpTypeIsVoid(t) /\ ~NpHasFields(t)
             THEN [hdr |-> v, err |-> "HeaderDataError",
                   msg |-> "known but not supported"]
             ELSE [hdr |-> PutBitpix(PutDatatype(v, code), NpItemsize(t) * 8),
                   err |-> "", msg |-> ""]

\* ---------------------------------------------------------------- storage
\* Objects are held in slots; the bytes of a numpy array, of a byte string and
\* the entries of a dict live at addresses.  A new object's array and dict are
\* allocated at the addresses named after its slot; "buf" is a byte buffer the
\* caller holds, "tmp" the byte string as_byteswapped hands to the constructor.
Slots == {"a", "b"}
Addrs == Slots \cup {"buf", "tmp"}

Live(h) == objs[h] # NULL

\* the header value behind the object in slot h
Val(h) == HdrVal(objs[h].order, mem[objs[h].data], dicts[objs[h].extra])

\* addresses no object and no caller refers to hold nothing
Referenced(o, x) == x = "buf" \/ \E h \in Slots : o[h] # NULL /\ o[h].data = x
Collect(o, m) == [x \in Addrs |-> IF Referenced(o, x) THEN m[x] ELSE NULL]

\* faulty variant: no copy: the array stays a view of the buffer it was read from
view_of_buffer(bufaddr, fresh) == bufaddr

\* hdr.copy() in __init__: the array of the new object lives in fresh storage,
\* not in the buffer it was read from
copy(bufaddr, fresh) == fresh

NoOp == [op |-> "none", h |-> "", arg |-> NULL, err |-> "", reports |-> <<>>,
         pre |-> NULL, post |-> NULL, ret |-> NULL]

Did(op, h, arg, err, reports, pre, post, ret) ==
    [op |-> op, h |-> h, arg |-> arg, err |-> err, reports |-> reports,
     pre |-> pre, post |-> post, ret |-> ret]

\* an in-place change of the object in slot h: its array and its dict are
\* written where they live; the object itself (its references, its dtype) stays
Mutate(h, v) ==
    /\ mem' = [mem EXCEPT ![objs[h].data] = v.block]
    /\ dicts' = [dicts EXCEPT ![objs[h].extra] = v.extra]
    /\ objs' = objs

\* binding slot dst to the object __init__ built from the bytes bb found at
\* bufaddr; r is what __init__ computed.  Nothing is bound when it raised.
\* made records which constructor call built the object.
Bind(dst, bufaddr, bb, r, how) ==
    IF r.hdr = NULL
    THEN UNCHANGED <<objs, mem, dicts>>
    ELSE LET a  == copy(bufaddr, dst)
             o1 == [objs EXCEPT ![dst] =
                       [data |-> a, order |-> r.hdr.order, extra |-> dst,
                        made |-> how]]
             m1 == [mem EXCEPT ![bufaddr] = bb]
             m2 == [m1 EXCEPT ![a] = r.hdr.block]
         IN  /\ objs' = o1
             /\ mem' = Collect(o1, m2)
             /\ dicts' = [dicts EXCEPT ![dst] = r.hdr.extra]

\* ---------------------------------------------------------------- actions
\* hdr[item] = value, hdr.header_data[item][idx] = value
SetItem(h, item, idx, value) ==
    /\ nops < MaxOps /\ Live(h)
    /\ LET v == __setitem__(Val(h), item, idx, value)
       IN  /\ Mutate(h, v)
           /\ last' = Did("setitem", h, <<item, idx, value>>, "", <<>>, Val(h), v, NULL)
    /\ nops' = nops + 1
    /\ UNCHANGED <<probe, env>>

SetDataShape(h, shape) ==
    /\ nops < MaxOps /\ Live(h)
    /\ LET r == set_data_shape(Val(h), shape)
       IN  /\ Mutate(h, r.hdr)
           /\ last' = Did("set_data_shape", h, shape, r.err, <<>>, Val(h), r.hdr, NULL)
    /\ nops' = nops + 1
    /\ UNCHANGED <<probe, env>>

SetZooms(h, zooms) ==
    /\ nops < MaxOps /\ Live(h)
    /\ LET r == set_zooms(Val(h), zooms)
       IN  /\ Mutate(h, r.hdr)
           /\ last' = Did("set_zooms", h, zooms, r.err, <<>>, Val(h), r.hdr, NULL)
    /\ nops' = nops + 1
    /\ UNCHANGED <<probe, env>>

SetDataDtype(h, datatype) ==
    /\ nops < MaxOps /\ Live(h)
    /\ LET r == set_data_dtype(Val(h), datatype)
       IN  /\ Mutate(h, r.hdr)
           /\ last' = Did("set_data_dtype", h, datatype, r.err, <<>>, Val(h), r.hdr, r.msg)
    /\ nops' = nops + 1
    /\ UNCHANGED <<probe, env>>

\* hdr.check_fix(error_level=...)
CheckFix(h, error_level) ==
    /\ nops < MaxOps /\ Live(h)
    /\ LET r == check_fix(Val(h), error_level)
       IN  /\ Mutate(h, r.hdr)
           /\ last' = Did("check_fix", h, error_level, r.err, r.reports, Val(h),
                          r.hdr, r.events)
    /\ nops' = nops + 1
    /\ UNCHANGED <<probe, env>>

\* AnalyzeHeader.diagnose_binaryblock(hdr.binaryblock, hdr.endianness): a
\* header is built from the bytes without checks and the battery run on it
\* without repair; pre and post are that header before and after the battery
Diagnose(h) ==
    /\ nops < MaxOps /\ Live(h)
    /\ LET c == __init__(binaryblock(Val(h)), endianness(Val(h)), FALSE, 0)
           r == check_only(c.hdr)
       IN  last' = Did("diagnose", h, NULL, r.err, r.reports, c.hdr, r.hdr, NULL)
    /\ nops' = nops + 1
    /\ UNCHANGED <<objs, mem, dicts, probe, env>>

\* dst = src.as_byteswapped(e)
AsByteswapped(src, dst, e) ==
    /\ nops < MaxOps /\ Live(src)
    /\ LET v  == Val(src)
           bb == IF endian_codes(e) = endianness(v)
                 THEN binaryblock(v) ELSE byteswap(v.block)
           n  == as_byteswapped(v, e)
       IN  /\ Bind(dst, "tmp", bb, [hdr |-> n, err |-> ""], "as_byteswapped")
           /\ last' = Did("as_byteswapped", dst, <<src, e>>, "", <<>>, v, n, NULL)
    /\ nops' = nops + 1
    /\ UNCHANGED <<probe, env>>

\* hdr.get_base_affine()
GetBaseAffine(h) ==
    /\ nops < MaxOps /\ Live(h)
    /\ last' = Did("get_base_affine", h, NULL, "", <<>>, Val(h), Val(h),
                   get_base_affine(Val(h)))
    /\ nops' = nops + 1
    /\ UNCHANGED <<objs, mem, dicts, probe, env>>

\* ---------------------------------------------------------- specification
\* the values the operations are fed
Shapes == {<<>>, <<3, 5>>, <<3, 5, 7>>, <<2, 2, 2, 2, 2, 2, 2, 2>>, <<40000, 2>>}
ZoomArgs == {<<>>, <<3, 2>>, <<3, 2, 1>>, <<3, -2, 1>>, <<1, 1, 1, 1, 1, 1, 1, 1>>}
DtypeArgs == {CodeKey(2), CodeKey(128), CodeKey(0), CodeKey(3),
              LabelKey("int16"), LabelKey("none"), LabelKey("implausible"),
              TypeKey("float64"), TypeKey("void")}
ItemArgs ==
    {<<"sizeof_hdr", 0, 0>>, <<"sizeof_hdr", 0, SwappedHdrSize>>,
     <<"dim", 0, -1>>, <<"dim", 0, 9>>, <<"dim", 0, 2>>,
     <<"datatype", 0, 0>>, <<"datatype", 0, 3>>, <<"datatype", 0, 4>>,
     <<"datatype", 0, 128>>,
     <<"bitpix", 0, 8>>,
     <<"pixdim", 1, F32(-2)>>, <<"pixdim", 3, F32(-1)>>, <<"pixdim", 2, NegZero>>,
     <<"descrip", 0, <<97, 98>> >>,
     <<"funny key", 0, 0>>}
ErrorLevels == {LevelDatatype, LevelDatatype + LevelBitpix}

\* the surroundings at import: no stream, no image, imageglobals.error_level
\* configured to one of levels, and check_fix's defaults evaluated from it as
\* the def statement is executed
InitEnv(levels) ==
    /\ fileobj = NULL
    /\ img = NULL
    /\ \E l \in levels :
          /\ imageglobals = [error_level |-> l]
          /\ check_fix_defaults = [error_level |-> l]

Init ==
    /\ \E e \in {"None", swapped_code} :
          /\ objs = [h \in Slots |-> IF h = "a"
                        THEN [data |-> "a", order |-> init_empty(e).order,
                              extra |-> "a", made |-> "empty"]
                        ELSE NULL]
          /\ mem = [x \in Addrs |-> IF x = "a" THEN init_empty(e).block ELSE NULL]
    /\ dicts = [h \in Slots |-> {}]
    /\ last = NoOp
    /\ nops = 0
    /\ probe = NULL
    /\ InitEnv({LevelDatatype})

Next ==
    \/ \E a \in ItemArgs : SetItem("a", a[1], a[2], a[3])
    \/ \E s \in Shapes : SetDataShape("a", s)
    \/ \E z \in ZoomArgs : SetZooms("a", z)
    \/ \E d \in DtypeArgs : SetDataDtype("a", d)
    \/ \E l \in ErrorLevels : CheckFix("a", l)
    \/ Diagnose("a")
    \/ \E e \in {native_code, swapped_code} : AsByteswapped("a", "a", e)
    \/ GetBaseAffine("a")

Spec == Init /\ [][Next]_vars

\* hdr = AnalyzeHeader(buf, e, check) on the caller's buffer, under the
\* threshold in force
FromBytes(dst, e, check, error_level) ==
    /\ nops < MaxOps /\ mem["buf"] # NULL
    /\ LET r == __init__(mem["buf"], e, check, error_level)
       IN  /\ Bind(dst, "buf", mem["buf"], r, "from_bytes")
           /\ last' = Did("from_bytes", dst, <<e, check>>, r.err, r.reports,
                          NULL, r.hdr, NULL)
    /\ nops' = nops + 1
    /\ UNCHANGED <<probe, env>>

\* buf = hdr.binaryblock, or its first 347 bytes
TakeBytes(h, whole) ==
    /\ nops < MaxOps /\ Live(h)
    /\ LET bb == binaryblock(Val(h))
           b1 == IF whole THEN bb ELSE [bb EXCEPT !.descrip = <<bb.descrip[1]>>]
       IN  /\ mem' = [mem EXCEPT !["buf"] = b1]
           /\ last' = Did("take_bytes", h, whole, "", <<>>, Val(h), Val(h), NULL)
    /\ nops' = nops + 1
    /\ UNCHANGED <<objs, dicts, probe, env>>

\* Two objects and a caller's buffer: conversions and constructions between
\* them, and every kind of mutation on either.
PairItemArgs == {<<"dim", 1, 2>>, <<"pixdim", 1, F32(-2)>>,
                 <<"descrip", 0, <<97, 98>> >>, <<"funny key", 0, 0>>}
PairShapes == {<<3, 5>>}
PairZooms == {<<3, 2>>}
PairDtypes == {CodeKey(4)}

InitPair == Init

NextPair ==
    \/ \E src \in Slots, dst \in Slots, e \in {native_code, swapped_code} :
          AsByteswapped(src, dst, e)
    \/ \E dst \in Slots, e \in {"None", native_code, swapped_code},
          check \in BOOLEAN :
             FromBytes(dst, e, check, check_fix_defaults.error_level)
    \/ \E h \in Slots, whole \in BOOLEAN : TakeBytes(h, whole)
    \/ \E h \in Slots, a \in PairItemArgs :
          SetItem(h, a[1], a[2], a[3])
    \/ \E h \in Slots, s \in PairShapes : SetDataShape(h, s)
    \/ \E h \in Slots, z \in PairZooms : SetZooms(h, z)
    \/ \E h \in Slots, d \in PairDtypes : SetDataDtype(h, d)
    \/ \E h \in Slots : CheckFix(h, LevelDatatype)

SpecPair == InitPair /\ [][NextPair]_vars

\* ----------------------------------------------- byte-order inference alone
\* An untyped buffer whose dim[0] and sizeof_hdr, read under native order, are
\* d and s; _guessed_endian is applied to it.
MaxProbe == 9
ProbeDims == (-MaxProbe..MaxProbe) \cup {-32768, -256, 256, 1792, 2048, 32767}
ProbeSizes == {HdrSize, SwappedHdrSize, 0, -1, SwappedHdrSize - 1,
               SwappedHdrSize + 1, 2147483647, -2147483647 - 1}

ProbeBlock(d, s) ==
    [EmptyBlock(native_code) EXCEPT !.dim[1] = EncI2(d, native_code),
                                    !.sizeof_hdr = EncI4(s, native_code)]

InitEndian ==
    /\ objs = [h \in Slots |-> NULL]
    /\ mem = [x \in Addrs |-> NULL]
    /\ dicts = [h \in Slots |-> {}]
    /\ last = NoOp
    /\ nops = 0
    /\ InitEnv({LevelDatatype})
    /\ \E d \in ProbeDims, s \in ProbeSizes :
          probe = [dim0 |-> d, sizeof_hdr |-> s, blk |-> ProbeBlock(d, s),
                   guess |-> "?"]

GuessEndian ==
    /\ probe.guess = "?"
    /\ probe' = [probe EXCEPT !.guess = _guessed_endian(probe.blk)]
    /\ UNCHANGED <<objs, mem, dicts, last, nops, env>>

NextEndian == GuessEndian

SpecEndian == InitEndian /\ [][NextEndian]_vars

\* ================================================================= claims

\* the block of v re-expressed in native order: every field decoded under v's
\* order and encoded again under native order
CanonBlock(v) ==
    [ sizeof_hdr |-> EncI4(GetSizeofHdr(v), native_code),
      dim        |-> [i \in Idx8 |-> EncI2(GetDim(v, i - 1), native_code)],
      datatype   |-> EncI2(GetDatatype(v), native_code),
      bitpix     |-> EncI2(GetBitpix(v), native_code),
      pixdim     |-> [i \in Idx8 |-> EncF4(GetPixdim(v, i - 1), native_code)],
      vox_offset |-> EncF4(DecF4(v.block.vox_offset, v.order), native_code),
      descrip    |-> v.block.descrip ]

LiveSlots == {h \in Slots : Live(h)}
MutatorOps == {"setitem", "set_data_shape", "set_zooms", "set_data_dtype", "check_fix"}

\* C1 holds of the headers whose ancillary mapping is empty: neither
\* constructor call carries the mapping over
RoundTripEmptyExtra ==
    \A h \in LiveSlots :
        LET H == Val(h) IN
        H.extra = {} =>
            /\ __eq__(__init__(binaryblock(H), endianness(H), FALSE, 0).hdr, H)
            /\ __eq__(as_byteswapped(as_byteswapped(H, Opposite(endianness(H))),
                                     endianness(H)), H)

\* C1: every header H equals (by __eq__) the header built from H.binaryblock
\* under H's byte order, and equals H converted to the opposite byte order and
\* back, whatever H's fields and ancillary mapping are.
C1_RoundTrip ==
    \A h \in LiveSlots :
        LET H == Val(h) IN
        /\ __eq__(__init__(binaryblock(H), endianness(H), FALSE, 0).hdr, H)
        /\ __eq__(as_byteswapped(as_byteswapped(H, Opposite(endianness(H))),
                                 endianness(H)), H)

\* C2: the guessed order is native when dim0 is in 1..7 whatever sizeof_hdr
\* is, for dim0 = 0 it is swapped exactly when sizeof_hdr = 1543569408, and it
\* is swapped for every other dim0.
C2_GuessedEndian ==
    probe.guess # "?" =>
        /\ (probe.dim0 \in 1..7 => probe.guess = native_code)
        /\ (probe.dim0 = 0 =>
               (probe.guess = swapped_code <=> probe.sizeof_hdr = 1543569408))
        /\ (probe.dim0 = 0 => probe.guess \in {native_code, swapped_code})
        /\ (probe.dim0 < 0 \/ probe.dim0 > 7 => probe.guess = swapped_code)

\* C2 witness: rank 1..7 with a sizeof_hdr that looks swapped, guessed native
C2_Witness ==
    /\ probe.guess = native_code
    /\ probe.dim0 \in 1..7
    /\ probe.sizeof_hdr = 1543569408

\* C3: A == B exactly when the blocks agree once both are expressed in one
\* byte order and the ancillary mappings agree; == is symmetric and != is its
\* negation.
C3_Equality ==
    \A x \in LiveSlots, y \in LiveSlots :
        LET A == Val(x)
            B == Val(y)
        IN  /\ __eq__(A, B) <=> (CanonBlock(A) = CanonBlock(B) /\ A.extra = B.extra)
            /\ __eq__(A, B) <=> __eq__(B, A)
            /\ __ne__(A, B) <=> ~__eq__(A, B)

\* C3 witness: two headers of opposite byte orders, with a shape set, equal
C3_Witness ==
    /\ Live("a") /\ Live("b")
    /\ objs["a"].order # objs["b"].order
    /\ GetDim(Val("a"), 0) = 2
    /\ __eq__(Val("a"), Val("b"))
    /\ Val("a").block # Val("b").block

\* C4: a header built from bytes or by as_byteswapped has the byte order asked
\* for and its own storage, so a mutation of one object leaves every other
\* object's block and mapping, and the caller's buffer, as they were.
C4_NoAliasing ==
    [][ /\ \A h \in Slots :
             (last'.op \in MutatorOps /\ last'.h = h) =>
                 /\ \A o \in LiveSlots \ {h} : Val(o)' = Val(o)
                 /\ mem'["buf"] = mem["buf"]
        /\ last'.op = "as_byteswapped" =>
             objs'[last'.h].order = endian_codes(last'.arg[2])
        /\ (last'.op = "from_bytes" /\ last'.err = "" /\ last'.arg[1] # "None") =>
             objs'[last'.h].order = endian_codes(last'.arg[1])
        /\ \A h \in Slots : objs'[h] # NULL =>
             /\ objs'[h].data # "buf"
             /\ \A o \in Slots \ {h} : objs'[o] # NULL =>
                   /\ objs'[o].data # objs'[h].data
                   /\ objs'[o].extra # objs'[h].extra
      ]_vars

\* C4 witness: an object built from the caller's buffer has been mutated, and
\* the buffer and the other object are there to be compared
C4_Witness ==
    /\ Live("a") /\ Live("b")
    /\ objs["b"].made = "from_bytes"
    /\ last.op = "setitem" /\ last.h = "b"
    /\ last.pre.block # last.post.block
    /\ mem["buf"] = last.pre.block

\* ------------------------------------------------- set_data_dtype alone
\* A default header, then set_data_dtype calls only.
InitDtype ==
    /\ objs = [h \in Slots |-> IF h = "a"
                  THEN [data |-> "a", order |-> init_empty("None").order,
                        extra |-> "a", made |-> "empty"]
                  ELSE NULL]
    /\ mem = [x \in Addrs |-> IF x = "a" THEN init_empty("None").block ELSE NULL]
    /\ dicts = [h \in Slots |-> {}]
    /\ last = NoOp
    /\ nops = 0
    /\ probe = NULL
    /\ InitEnv({LevelDatatype})

DtypeArgsAll ==
    DtypeArgs \cup {CodeKey(c) : c \in DtCodes}
              \cup {LabelKey("RGB"), LabelKey("all"), TypeKey("uint8"), TypeKey("RGB"),
                    CodeKey(-1), CodeKey(256)}

NextDtype == \E d \in DtypeArgsAll : SetDataDtype("a", d)

SpecDtype == InitDtype /\ [][NextDtype]_vars

\* C5: the rank dim[0] of every header is in 0..7, whatever operations were
\* applied to it and however they ended.
C5_RankInvariant ==
    \A h \in LiveSlots : GetDim(Val(h), 0) \in 0..7

\* the reports that carry a fix description
FixReports(reports) == {k \in DOMAIN reports : reports[k].fix_msg # ""}
SupportedCodes == {2, 4, 8, 16, 32, 64, 128}
UnsupportedCodes == {0, 1, 255}
BitsOfCode(code) ==
    CASE code = 2 -> 8 [] code = 4 -> 16 [] code = 8 -> 32 [] code = 16 -> 32
      [] code = 32 -> 64 [] code = 64 -> 64 [] code = 128 -> 24

\* C6: after a check_fix that does not abort, sizeof_hdr is 348 and
\* pixdim[1..3] are the absolute values of what they were; a check that
\* repaired something reports the problem, the fix and level 0; when the only
\* defects were sizeof_hdr = 0 and a negative spacing, exactly two reports
\* carry a fix.
C6_RepairResult ==
    (last.op = "check_fix" /\ last.err = "") =>
        LET pre  == last.pre
            post == Val(last.h)
            reps == last.reports
            repaired(k) ==
                CASE k = 1 -> GetSizeofHdr(pre) # GetSizeofHdr(post)
                  [] k = 2 -> FALSE
                  [] k = 3 -> GetBitpix(pre) # GetBitpix(post)
                  [] k = 4 -> \E i \in 1..3 : GetPixdim(pre, i) # GetPixdim(post, i)
        IN  /\ GetSizeofHdr(post) = 348
            /\ \A i \in 1..3 :
                  /\ FEq(GetPixdim(post, i), FAbs(GetPixdim(pre, i)))
                  /\ ~FNeg(GetPixdim(post, i))
            /\ Len(reps) = 4
            /\ \A k \in 1..4 : repaired(k) =>
                  /\ reps[k].problem_msg # ""
                  /\ reps[k].fix_msg # ""
                  /\ reps[k].level = 0
            /\ ( /\ GetSizeofHdr(pre) = 0
                 /\ \E i \in 1..3 : FNeg(GetPixdim(pre, i))
                 /\ GetDatatype(pre) \in SupportedCodes
                 /\ GetBitpix(pre) = BitsOfCode(GetDatatype(pre)) )
               => Cardinality(FixReports(reps)) = 2

\* C6 witness: sizeof_hdr = 0 and a negative spacing repaired, two fixes
C6_Witness ==
    /\ last.op = "check_fix" /\ last.err = ""
    /\ GetSizeofHdr(last.pre) = 0
    /\ FNeg(GetPixdim(last.pre, 1))
    /\ GetSizeofHdr(Val(last.h)) = 348
    /\ GetPixdim(Val(last.h), 1) = F32(2)
    /\ FixReports(last.reports) = {1, 4}

\* C7: the battery without repair never raises and changes nothing; a
\* sizeof_hdr other than 348 is reported at level 30, a bitpix not matching a
\* valid code at level 10, a negative pixdim[1..3] at level 40, none with a fix.
C7_DiagnoseOnly ==
    last.op = "diagnose" =>
        LET pre  == last.pre
            reps == last.reports
        IN  /\ last.err = ""
            /\ last.post = pre
            /\ Val(last.h).block = pre.block
            /\ Len(reps) = 4
            /\ FixReports(reps) = {}
            /\ GetSizeofHdr(pre) # 348 => reps[1].level = 30
            /\ ( /\ GetDatatype(pre) \in SupportedCodes
                 /\ GetBitpix(pre) # BitsOfCode(GetDatatype(pre)) )
               => reps[3].level = 10
            /\ (\E i \in 1..3 : FNeg(GetPixdim(pre, i))) => reps[4].level = 40

\* C7 witness: a header with sizeof_hdr = 0 and a negative spacing diagnosed
C7_Witness ==
    /\ last.op = "diagnose"
    /\ GetSizeofHdr(last.pre) = 0
    /\ FNeg(GetPixdim(last.pre, 1))
    /\ last.reports[1].level = 30
    /\ last.reports[4].level = 40

\* C8: in both modes the data-type check reports level 40 exactly for the
\* codes outside the registry and for 0, 1, 255, reports level 0 for 2, 4, 8,
\* 16, 32, 64, 128, and leaves the header as it was.
C8_DatatypeCheck ==
    \A h \in LiveSlots, fix \in BOOLEAN :
        LET v    == Val(h)
            code == GetDatatype(v)
            r    == _chk_datatype(v, fix)
        IN  /\ r.rep.level = 40 <=> (code \notin DtCodes \/ code \in UnsupportedCodes)
            /\ code \in SupportedCodes => r.rep.level = 0
            /\ r.hdr = v

\* C9: with an invalid code (outside the registry, or 0, 1, 255) the bit-width
\* check reports level 10 in both modes and never changes bitpix; with a valid
\* code and a wrong bitpix, repair rewrites bitpix (level 0, fix recorded) and
\* diagnosis reports level 10 and changes nothing; with a valid code and the
\* right bitpix the report is clean.
C9_BitpixCheck ==
    \A h \in LiveSlots, fix \in BOOLEAN :
        LET v    == Val(h)
            code == GetDatatype(v)
            r    == _chk_bitpix(v, fix)
        IN  IF code \notin DtCodes \/ code \in UnsupportedCodes
            THEN r.rep.level = 10 /\ r.hdr = v
            ELSE IF GetBitpix(v) # BitsOfCode(code)
            THEN IF fix
                 THEN /\ GetBitpix(r.hdr) = BitsOfCode(code)
                      /\ r.rep.level = 0 /\ r.rep.fix_msg # ""
                 ELSE r.hdr = v /\ r.rep.level = 10
            ELSE r.hdr = v /\ r.rep.level = 0 /\ r.rep.problem_msg = ""

\* C10: set_data_dtype raises HeaderDataError 'not recognized' for a key
\* outside the registry and 'known but not supported' for one that resolves to
\* 0, 1 or 255, changing nothing; otherwise it writes the code and 8 x the
\* byte size.  After any sequence of calls from a default header bitpix is the
\* bit width of the datatype code, and get_data_dtype gives the representation
\* set by the last call that succeeded.
C10_SetDataDtype ==
    /\ Live("a") =>
          /\ GetDatatype(Val("a")) \in SupportedCodes
          /\ GetBitpix(Val("a")) = BitsOfCode(GetDatatype(Val("a")))
    /\ last.op = "set_data_dtype" =>
        LET key  == last.arg
            pre  == last.pre
            post == Val(last.h)
        IN  IF ~HasKey(key)
            THEN /\ last.err = "HeaderDataError" /\ last.ret = "not recognized"
                 /\ post = pre
            ELSE IF CodeOfKey(key) \in UnsupportedCodes
            THEN /\ last.err = "HeaderDataError"
                 /\ last.ret = "known but not supported"
                 /\ post = pre
            ELSE /\ last.err = ""
                 /\ GetDatatype(post) = CodeOfKey(key)
                 /\ GetBitpix(post) = BitsOfCode(CodeOfKey(key))
                 /\ get_data_dtype(post).err = ""
                 /\ get_data_dtype(post).dtype = NpDtype(TypeOfCode(CodeOfKey(key)))

\* C10 witness: a failing call after a successful one: the RGB type stays set
C10_Witness ==
    /\ last.op = "set_data_dtype"
    /\ last.ret = "known but not supported"
    /\ GetDatatype(Val("a")) = 128
    /\ GetBitpix(Val("a")) = 24
    /\ get_data_dtype(Val("a")).dtype = NpDtype("RGB")

\* ---------------------------------------------------------------- zooms
\* what the contract of set_zooms says of the last call: a wrong count or a
\* negative value gives HeaderDataError and leaves pixdim alone; otherwise the
\* values are in pixdim[1..r], nothing else has changed, and get_zooms returns
\* them
SetZoomsContract ==
    LET pre  == last.pre
        post == Val(last.h)
        z    == last.arg
        r    == GetDim(pre, 0)
        bad  == Len(z) # r \/ \E k \in 1..Len(z) : z[k] < 0
    IN  /\ bad => /\ last.err = "HeaderDataError"
                  /\ post.block.pixdim = pre.block.pixdim
        /\ ~bad => /\ last.err = ""
                   /\ \A i \in 0..7 :
                         GetPixdim(post, i) =
                            IF i \in 1..r THEN F32(z[i]) ELSE GetPixdim(pre, i)
                   /\ post = [pre EXCEPT !.block.pixdim = post.block.pixdim]
                   /\ get_zooms(post) = [k \in 1..r |-> F32(z[k])]

\* the same for headers whose rank is one the format allows
SetZoomsRanked ==
    (last.op = "set_zooms" /\ GetDim(last.pre, 0) \in 0..MaxNdim)
        => SetZoomsContract

\* C11: after set_zooms(z) on a header of rank r: HeaderDataError and pixdim
\* untouched when len(z) # r or a value of z is negative; otherwise z is in
\* pixdim[1..r], every other slot and field is as before, and get_zooms
\* returns z
C11_SetZooms == last.op = "set_zooms" => SetZoomsContract

\* ---------------------------------------------------------------- shape
\* what the contract of set_data_shape says of the last call, for a shape of
\* 1..7 extents: dim is the rank, the extents, then ones; get_data_shape
\* returns the shape; nothing but dim has changed
SetDataShapeContract ==
    LET pre  == last.pre
        post == Val(last.h)
        s    == last.arg
        N    == Len(s)
    IN  /\ last.err = ""
        /\ \A i \in 0..7 :
              GetDim(post, i) = IF i = 0 THEN N ELSE IF i <= N THEN s[i] ELSE 1
        /\ get_data_shape(post) = s
        /\ post = [pre EXCEPT !.block.dim = post.block.dim]

\* a header of rank 0 reports the shape (0,) and no zooms
RankZeroReports ==
    \A h \in Slots :
        (Live(h) /\ GetDim(Val(h), 0) = 0)
            => get_data_shape(Val(h)) = <<0>> /\ get_zooms(Val(h)) = <<>>

\* the extents a 16-bit signed field holds
FitsI2(x) == x \in -32768..32767

\* the contract for shapes whose extents the dim field can hold
SetDataShapeFitting ==
    /\ (last.op = "set_data_shape" /\ Len(last.arg) \in 1..MaxNdim
            /\ \A k \in 1..Len(last.arg) : FitsI2(last.arg[k]))
          => SetDataShapeContract
    /\ RankZeroReports

\* C12: after set_data_shape(s) with 1..7 extents, dim is [N, s[0..N-1], 1...],
\* get_data_shape returns s and no other field has changed; a header of rank 0
\* reports the shape (0,) and the zooms ()
C12_DataShape ==
    /\ (last.op = "set_data_shape" /\ Len(last.arg) \in 1..MaxNdim)
          => SetDataShapeContract
    /\ RankZeroReports

\* ================================================================ data I/O
\* An array handed to the writers is its element type and its shape.  A stream
\* is [seekable, pos, calls]: calls is the sequence of what was asked of it.
ndarray(type, shape) == [type |-> type, shape |-> shape]
Stream(seekable, pos) == [seekable |-> seekable, pos |-> pos, calls |-> <<>>]

\* fileobj.seek(offset): a stream that cannot seek raises IOError and stays
\* where it is
seek(f, offset) ==
    IF f.seekable
    THEN [f |-> [f EXCEPT !.pos = offset,
                          !.calls = Append(@, <<"seek", offset>>)],
          err |-> ""]
    ELSE [f |-> [f EXCEPT !.calls = Append(@, <<"seek", offset>>)],
          err |-> "IOError"]

\* fileobj.tell()
tell(f) == f.pos

RECURSIVE NumElements(_)
NumElements(shape) ==
    IF shape = <<>> THEN 1 ELSE Head(shape) * NumElements(Tail(shape))

\* volumeutils.array_to_file(data, fileobj, out_dtype): the elements of data,
\* converted to out_dtype, written at the stream's position
array_to_file(data, f, out_dtype) ==
    [f EXCEPT !.pos = @ + NumElements(data.shape) * NpItemsize(out_dtype.type),
              !.calls = Append(@, <<"write", data, out_dtype, f.pos>>)]

\* volumeutils.array_from_file(shape, dtype, fileobj, offset): an array of the
\* shape and dtype, read from the stream at offset
array_from_file(shape, dtype, f, offset) ==
    [f   |-> [f EXCEPT !.pos = offset + NumElements(shape) * NpItemsize(dtype.type),
                       !.calls = Append(@, <<"read", shape, dtype, offset>>)],
     ret |-> [type |-> dtype.type, byteorder |-> dtype.byteorder,
              shape |-> shape, offset |-> offset]]

\* numpy kinds of the types of the table
NpKind(t) ==
    CASE t \in {"uint8"}              -> "u"
      [] t \in {"int16", "int32"}     -> "i"
      [] t \in {"float32", "float64"} -> "f"
      [] t = "complex64"              -> "c"
      [] OTHER                        -> "V"

\* volumeutils.can_cast(in_type, out_type, has_intercept, has_slope): whether
\* values of in_type can be written as out_type without loss that the scaling
\* available could not make up for
can_cast(in_type, out_type, has_intercept, has_slope) ==
    LET ik == NpKind(in_type)
        ok == NpKind(out_type)
    IN  IF in_type = out_type THEN TRUE
        ELSE IF ik = "V" \/ ok = "V" THEN FALSE
        ELSE IF ik = "c" /\ ok # "c" THEN FALSE
        ELSE IF ok \in {"f", "c"} THEN TRUE
        ELSE IF ik = "f" THEN has_slope
        ELSE IF ik = "i" /\ ok = "u" THEN has_intercept
        ELSE IF ik = ok THEN NpItemsize(in_type) <= NpItemsize(out_type) \/ has_slope
        ELSE NpItemsize(in_type) < NpItemsize(out_type) \/ has_slope

\* class attributes: the Analyze header has no scaling
_has_data_slope == FALSE
_has_data_intercept == FALSE

\* _cast_check(nptype): the error raised, "" when none
_cast_check(v, nptype) ==
    LET d == get_data_dtype(v) IN
    IF d.err # "" THEN d.err
    ELSE IF can_cast(nptype, d.dtype.type, _has_data_intercept, _has_data_slope)
    THEN ""
    ELSE "HeaderTypeError"

\* _prepare_write(data, fileobj)
_prepare_write(v, data, f) ==
    LET shape == get_data_shape(v) IN
    IF data.shape # shape
    THEN [f |-> f, err |-> "HeaderDataError"]
    ELSE LET offset == IntOfF32(GetVoxOffset(v))
             s      == seek(f, offset)
         IN  IF s.err = "IOError" /\ tell(s.f) # offset
             THEN [f |-> s.f, err |-> "IOError"]
             ELSE [f |-> s.f, err |-> ""]

\* write_raw_data(data, fileobj)
write_raw_data(v, data, f) ==
    LET p == _prepare_write(v, data, f) IN
    IF p.err # "" THEN p
    ELSE LET d == get_data_dtype(v)
         IN  IF d.err # "" THEN [f |-> p.f, err |-> d.err]
             ELSE [f |-> array_to_file(data, p.f, d.dtype), err |-> ""]

\* faulty variant: the data handed on without the cast check
write_data_unchecked(v, data, f) == write_raw_data(v, data, f)

\* write_data(data, fileobj)
write_data(v, data, f) ==
    LET c == _cast_check(v, data.type) IN
    IF c # "" THEN [f |-> f, err |-> c]
    ELSE write_raw_data(v, data, f)

\* read_raw_data(fileobj)
read_raw_data(v, f) ==
    LET d == get_data_dtype(v) IN
    IF d.err # "" THEN [f |-> f, err |-> d.err, ret |-> NULL]
    ELSE LET shape  == get_data_shape(v)
             offset == IntOfF32(GetVoxOffset(v))
             r      == array_from_file(shape, d.dtype, f, offset)
         IN  [f |-> r.f, err |-> "", ret |-> r.ret]

\* read_data(fileobj)
read_data(v, f) == read_raw_data(v, f)

\* hdr.write_data(data, fileobj), hdr.write_raw_data(data, fileobj),
\* hdr.read_raw_data(fileobj) on the stream; ret keeps the stream before the
\* call and what the call returned
WriteData(h, data) ==
    /\ nops < MaxOps /\ Live(h) /\ fileobj # NULL
    /\ LET r == write_data(Val(h), data, fileobj)
       IN  /\ fileobj' = r.f
           /\ last' = Did("write_data", h, data, r.err, <<>>, Val(h), Val(h),
                          [before |-> fileobj, value |-> NULL])
    /\ nops' = nops + 1
    /\ UNCHANGED <<objs, mem, dicts, probe, img, imageglobals, check_fix_defaults>>

WriteRawData(h, data) ==
    /\ nops < MaxOps /\ Live(h) /\ fileobj # NULL
    /\ LET r == write_raw_data(Val(h), data, fileobj)
       IN  /\ fileobj' = r.f
           /\ last' = Did("write_raw_data", h, data, r.err, <<>>, Val(h), Val(h),
                          [before |-> fileobj, value |-> NULL])
    /\ nops' = nops + 1
    /\ UNCHANGED <<objs, mem, dicts, probe, img, imageglobals, check_fix_defaults>>

ReadRawData(h) ==
    /\ nops < MaxOps /\ Live(h) /\ fileobj # NULL
    /\ LET r == read_raw_data(Val(h), fileobj)
       IN  /\ fileobj' = r.f
           /\ last' = Did("read_raw_data", h, NULL, r.err, <<>>, Val(h), Val(h),
                          [before |-> fileobj, value |-> r.ret])
    /\ nops' = nops + 1
    /\ UNCHANGED <<objs, mem, dicts, probe, img, imageglobals, check_fix_defaults>>

\* hdr.get_data_dtype()
GetDataDtype(h) ==
    /\ nops < MaxOps /\ Live(h)
    /\ LET r == get_data_dtype(Val(h))
       IN  last' = Did("get_data_dtype", h, NULL, r.err, <<>>, Val(h), Val(h),
                       r.dtype)
    /\ nops' = nops + 1
    /\ UNCHANGED <<objs, mem, dicts, probe, env>>

\* A header in either byte order, a stream that can or cannot seek, at the
\* start or two bytes in; the header is given shapes, data types and offsets,
\* and arrays of several types and shapes are written through it.
StreamStarts == {0, 2}
IOArrays == {ndarray(t, s) : t \in {"float32", "complex64", "int16"},
                             s \in {<<0>>, <<3, 5>>, <<2>>}}
IOShapes == {<<3, 5>>, <<2>>}
IODtypes == {CodeKey(4), CodeKey(16)}
IOItemArgs == {<<"datatype", 0, 3>>, <<"vox_offset", 0, F32(2)>>}

InitIO ==
    /\ \E e \in {"None", swapped_code} :
          /\ objs = [h \in Slots |-> IF h = "a"
                        THEN [data |-> "a", order |-> init_empty(e).order,
                              extra |-> "a", made |-> "empty"]
                        ELSE NULL]
          /\ mem = [x \in Addrs |-> IF x = "a" THEN init_empty(e).block ELSE NULL]
    /\ dicts = [h \in Slots |-> {}]
    /\ last = NoOp
    /\ nops = 0
    /\ probe = NULL
    /\ \E sk \in BOOLEAN, p \in StreamStarts : fileobj = Stream(sk, p)
    /\ img = NULL
    /\ imageglobals = [error_level |-> LevelDatatype]
    /\ check_fix_defaults = [error_level |-> LevelDatatype]

NextIO ==
    \/ \E d \in IOArrays : WriteData("a", d)
    \/ \E d \in IOArrays : WriteRawData("a", d)
    \/ ReadRawData("a")
    \/ GetDataDtype("a")
    \/ \E s \in IOShapes : SetDataShape("a", s)
    \/ \E d \in IODtypes : SetDataDtype("a", d)
    \/ \E a \in IOItemArgs : SetItem("a", a[1], a[2], a[3])

SpecIO == InitIO /\ [][NextIO]_vars

\* what the last call asked of the stream
NewCalls ==
    SubSeq(fileobj.calls, Len(last.ret.before.calls) + 1, Len(fileobj.calls))

\* C13: write_data on a header whose data type code is registered: an array
\* whose type cannot be cast safely gives HeaderTypeError, whatever its shape;
\* a safe type with a shape other than the header's gives HeaderDataError; in
\* both cases the stream is as it was (not asked to seek, not written), and
\* the header is never changed.  The stream is touched only when both tests
\* pass, and then it is asked to seek to vox_offset before the array is
\* written there.
C13_WriteData ==
    last.op = "write_data" =>
        LET v       == last.pre
            data    == last.arg
            before  == last.ret.before
            known   == HasCode(GetDatatype(v))
            safe    == known /\ can_cast(data.type, TypeOfCode(GetDatatype(v)),
                                         _has_data_intercept, _has_data_slope)
            shapeok == data.shape = get_data_shape(v)
            offset  == IntOfF32(GetVoxOffset(v))
        IN  /\ Val(last.h) = v
            /\ (known /\ ~safe) => (last.err = "HeaderTypeError" /\ fileobj = before)
            /\ (safe /\ ~shapeok) => (last.err = "HeaderDataError" /\ fileobj = before)
            /\ fileobj # before =>
                  /\ safe /\ shapeok
                  /\ Len(NewCalls) \in 1..2
                  /\ NewCalls[1] = <<"seek", offset>>
                  /\ Len(NewCalls) = 2 =>
                        /\ NewCalls[2][1] = "write"
                        /\ NewCalls[2][2] = data
                        /\ NewCalls[2][4] = offset
            /\ last.err = "" => Len(NewCalls) = 2

\* an array of an unsafe type and of the wrong shape has been refused, on a
\* stream that could have been moved
C13_Witness ==
    /\ last.op = "write_data"
    /\ last.err = "HeaderTypeError"
    /\ last.arg.shape # get_data_shape(last.pre)
    /\ fileobj.seekable
    /\ IntOfF32(GetVoxOffset(last.pre)) # tell(fileobj)

\* a write that passed both tests: the seek, then the array
WriteDataDone ==
    /\ last.op = "write_data" /\ last.err = ""
    /\ IntOfF32(GetVoxOffset(last.pre)) # tell(last.ret.before)

\* =================================================================== image
\* An AnalyzeImage: _data (NULL for None, or an array), _files (NULL for None,
\* or a dict, the set of its <<key, filename>> pairs) and _metadata (the slot
\* of its header); opened is the sequence of file names allopen was given for
\* it.
Files(pairs) == [entries |-> pairs]

Image(data, files, metadata) ==
    [_data |-> data, _files |-> files, _metadata |-> metadata, opened |-> <<>>]

\* not self._files: None and the empty dict are false
FilesFalse(files) == files = NULL \/ files.entries = {}
HasFile(files, key) == \E p \in files.entries : p[1] = key
FileOf(files, key) == (CHOOSE p \in files.entries : p[1] = key)[2]

\* volumeutils.allopen(fname): a stream on the file, at its start
allopen(fname) == Stream(TRUE, 0)

\* faulty variant: the file read whenever there is one, cached data or not
get_data_no_cache(im, v) ==
    IF FilesFalse(im._files) \/ ~HasFile(im._files, "image")
    THEN [img |-> im, ret |-> im._data, err |-> "", f |-> NULL]
    ELSE LET fname == FileOf(im._files, "image")
             r     == read_data(v, allopen(fname))
             im1   == [im EXCEPT !.opened = Append(@, fname)]
         IN  IF r.err # ""
             THEN [img |-> im1, ret |-> NULL, err |-> r.err, f |-> r.f]
             ELSE [img |-> [im1 EXCEPT !._data = r.ret], ret |-> r.ret,
                   err |-> "", f |-> r.f]

\* AnalyzeImage.get_data(); v is the image's header
get_data(im, v) ==
    IF im._data # NULL
    THEN [img |-> im, ret |-> im._data, err |-> "", f |-> NULL]
    ELSE IF FilesFalse(im._files)
    THEN [img |-> im, ret |-> NULL, err |-> "", f |-> NULL]
    ELSE IF ~HasFile(im._files, "image")
    THEN [img |-> im, ret |-> NULL, err |-> "", f |-> NULL]
    ELSE LET fname == FileOf(im._files, "image")
             r     == read_data(v, allopen(fname))
             im1   == [im EXCEPT !.opened = Append(@, fname)]
         IN  IF r.err # ""
             THEN [img |-> im1, ret |-> NULL, err |-> r.err, f |-> r.f]
             ELSE [img |-> [im1 EXCEPT !._data = r.ret], ret |-> r.ret,
                   err |-> "", f |-> r.f]

\* img.get_data(): pre is the image before the call, ret what was returned
GetData ==
    /\ nops < MaxOps /\ img # NULL /\ Live(img._metadata)
    /\ LET r == get_data(img, Val(img._metadata))
       IN  /\ img' = r.img
           /\ fileobj' = IF r.f = NULL THEN fileobj ELSE r.f
           /\ last' = Did("get_data", img._metadata, NULL, r.err, <<>>, img,
                          r.img, r.ret)
    /\ nops' = nops + 1
    /\ UNCHANGED <<objs, mem, dicts, probe, imageglobals, check_fix_defaults>>

\* ret._files = files, as from_files and to_files do
SetFiles(files) ==
    /\ nops < MaxOps /\ img # NULL
    /\ img' = [img EXCEPT !._files = files]
    /\ last' = Did("set_files", img._metadata, files, "", <<>>, img, img', NULL)
    /\ nops' = nops + 1
    /\ UNCHANGED <<objs, mem, dicts, probe, fileobj, imageglobals,
                   check_fix_defaults>>

\* An image built around the header in slot "a", with or without an array
\* and with the file mappings a caller can leave it with; its header is
\* changed between the calls of get_data, so that reading the file again
\* would not give what was read before.
ImageArrays == {NULL, ndarray("float32", <<3, 5>>)}
ImageFiles == {NULL, Files({}), Files({<<"header", "x.hdr">>}),
               Files({<<"header", "x.hdr">>, <<"image", "x.img">>})}
ImageShapes == {<<3, 5>>, <<2>>}
ImageItemArgs == {<<"datatype", 0, 3>>, <<"datatype", 0, 4>>}

InitImage ==
    /\ \E e \in {"None", swapped_code} :
          /\ objs = [h \in Slots |-> IF h = "a"
                        THEN [data |-> "a", order |-> init_empty(e).order,
                              extra |-> "a", made |-> "empty"]
                        ELSE NULL]
          /\ mem = [x \in Addrs |-> IF x = "a" THEN init_empty(e).block ELSE NULL]
    /\ dicts = [h \in Slots |-> {}]
    /\ last = NoOp
    /\ nops = 0
    /\ probe = NULL
    /\ fileobj = NULL
    /\ \E d \in ImageArrays, fs \in ImageFiles : img = Image(d, fs, "a")
    /\ imageglobals = [error_level |-> LevelDatatype]
    /\ check_fix_defaults = [error_level |-> LevelDatatype]

NextImage ==
    \/ GetData
    \/ \E fs \in ImageFiles : SetFiles(fs)
    \/ \E s \in ImageShapes : SetDataShape("a", s)
    \/ \E a \in ImageItemArgs : SetItem("a", a[1], a[2], a[3])

SpecImage == InitImage /\ [][NextImage]_vars

\* C14: a get_data call on an image whose cache holds data returns that data
\* and changes nothing: the cache is kept and no file is opened or read; a
\* call on an image without cached data and without a file mapping, or
\* without an 'image' entry in it, returns None and leaves the cache empty
C14_DataCache ==
    last.op = "get_data" =>
        LET b == last.pre IN
        /\ b._data # NULL =>
              /\ last.ret = b._data
              /\ img = b
              /\ last.err = ""
        /\ (b._data = NULL /\ (FilesFalse(b._files) \/ ~HasFile(b._files, "image"))) =>
              /\ last.ret = NULL
              /\ img = b
              /\ last.err = ""

\* data cached by a first read has been returned by a later call, though
\* the header has changed since and the file is still there to be read
C14_Witness ==
    /\ last.op = "get_data"
    /\ last.pre._data # NULL
    /\ last.pre.opened = <<"x.img">>
    /\ ~FilesFalse(img._files)
    /\ HasFile(img._files, "image")
    /\ read_data(Val("a"), allopen("x.img")).ret # last.ret

\* what the claim says of the affine returned for a header of rank r < 3:
\* axes from r on have no translation; axes below r have the spacing (the
\* first negated) on the diagonal and -((dim - 1) / 2) times it as translation
BaseAffineLowRank(v, aff) ==
    LET r == GetDim(v, 0) IN
    \A i \in 0..2 :
        /\ i >= r => aff.trans2[i + 1] = 0
        /\ i < r =>
              LET z == IntOfF32(GetPixdim(v, i + 1))
                  signed == IF i = 0 /\ default_x_flip THEN -1 * z ELSE z
              IN  /\ aff.diag[i + 1] = signed
                  /\ aff.trans2[i + 1] = (-1 * (GetDim(v, i + 1) - 1)) * signed

\* the same for headers whose extent slots from the rank on hold 1, as
\* set_data_shape leaves them
BaseAffineAfterSetShape ==
    (/\ last.op = "get_base_affine"
     /\ GetDim(last.pre, 0) \in 0..2
     /\ \A i \in 0..2 : i >= GetDim(last.pre, 0) => GetDim(last.pre, i + 1) = 1)
        => BaseAffineLowRank(last.pre, last.ret)

\* C15: get_base_affine of any reachable header of rank r < 3: the
\* translation of every spatial axis i >= r is 0; for i < r the diagonal entry
\* is pixdim[i+1] (negated on the first axis) and the translation is
\* -((dim[i+1] - 1) / 2) times that signed spacing
C15_BaseAffine ==
    (last.op = "get_base_affine" /\ GetDim(last.pre, 0) \in 0..2)
        => BaseAffineLowRank(last.pre, last.ret)

\* the four checks applied one after the other with repair, each to the
\* header the one before left
ChkChain(v) ==
    LET r1 == _chk_sizeof_hdr(v, TRUE)
        r2 == _chk_datatype(r1.hdr, TRUE)
        r3 == _chk_bitpix(r2.hdr, TRUE)
        r4 == _chk_pixdims(r3.hdr, TRUE)
    IN  [hdr |-> r4.hdr, reports |-> <<r1.rep, r2.rep, r3.rep, r4.rep>>]

\* C16: every check_fix call runs the checks sizeof_hdr, datatype, bitpix,
\* pixdim, in that order and once each, whatever the earlier ones reported;
\* the first report is logged only after the fourth check; and the header it
\* leaves, raising or not, carries every repair the checks make
C16_BatteryOrder ==
    last.op = "check_fix" =>
        LET ev == last.ret
            c  == ChkChain(last.pre)
        IN  /\ Len(ev) > 4
            /\ SubSeq(ev, 1, 4) = << <<"check", "sizeof_hdr">>, <<"check", "datatype">>,
                                    <<"check", "bitpix">>, <<"check", "pixdims">> >>
            /\ \A k \in 5..Len(ev) : ev[k] = <<"log_raise", k - 4>>
            /\ last.reports = c.reports
            /\ Val(last.h) = c.hdr
            /\ last.err # "" =>
                  /\ GetSizeofHdr(Val(last.h)) = HdrSize
                  /\ \A i \in 1..3 : ~FNeg(GetPixdim(Val(last.h), i))

\* a check_fix call has raised on the data type report (severity 40), and the
\* negative spacing the header had, looked at by the later pixdim check, is
\* repaired
C16_Witness ==
    /\ last.op = "check_fix"
    /\ last.err = "HeaderDataError"
    /\ last.reports[2].level = LevelDatatype
    /\ \E i \in 1..3 : FNeg(GetPixdim(last.pre, i))
    /\ \A i \in 1..3 : ~FNeg(GetPixdim(Val(last.h), i))

\* ============================================================== thresholds
\* update(mapping): the items assigned one by one
RECURSIVE update(_, _, _)
update(v, mapping, k) ==
    IF k > Len(mapping) THEN v
    ELSE update(__setitem__(v, mapping[k][1], mapping[k][2], mapping[k][3]),
                mapping, k + 1)

\* from_mapping(mapping, endianness, check); error_level is the threshold
\* check_fix() works under.  hdr is NULL when it raises.
from_mapping(mapping, e, check, error_level) ==
    LET v == update(init_empty(e), mapping, 1) IN
    IF ~check
    THEN [hdr |-> v, err |-> "", reports |-> <<>>]
    ELSE LET r == check_fix(v, error_level)
         IN  [hdr |-> IF r.err = "" THEN r.hdr ELSE NULL,
              err |-> r.err, reports |-> r.reports]

\* the threshold self.check_fix() works under when it is called with no
\* arguments, as the constructors call it: the default of the parameter
DefaultErrorLevel == check_fix_defaults.error_level

\* imageglobals.error_level = level
SetErrorLevel(level) ==
    /\ nops < MaxOps
    /\ imageglobals' = [imageglobals EXCEPT !.error_level = level]
    /\ last' = Did("set_error_level", "", level, "", <<>>, NULL, NULL, NULL)
    /\ nops' = nops + 1
    /\ UNCHANGED <<objs, mem, dicts, probe, fileobj, img, check_fix_defaults>>

\* hdr = AnalyzeHeader.from_mapping(mapping, e, check)
FromMapping(dst, mapping, e, check) ==
    /\ nops < MaxOps
    /\ LET r  == from_mapping(mapping, e, check, DefaultErrorLevel)
           o1 == [objs EXCEPT ![dst] =
                     [data |-> dst, order |-> r.hdr.order, extra |-> dst,
                      made |-> "from_mapping"]]
       IN  /\ IF r.hdr = NULL
              THEN UNCHANGED <<objs, mem, dicts>>
              ELSE /\ objs' = o1
                   /\ mem' = Collect(o1, [mem EXCEPT ![dst] = r.hdr.block])
                   /\ dicts' = [dicts EXCEPT ![dst] = r.hdr.extra]
           /\ last' = Did("from_mapping", dst, <<e, check>>, r.err, r.reports,
                          NULL, r.hdr, NULL)
    /\ nops' = nops + 1
    /\ UNCHANGED <<probe, env>>

\* A header that is sound, or holds an unsupported or an unregistered data
\* type code, and a buffer holding its bytes; the module was imported under
\* one of three configured thresholds, which the caller then changes between
\* constructions from the buffer or from a mapping.
ThresholdLevels == {LevelBitpix, LevelDatatype, LevelDatatype + LevelBitpix}
ThresholdCodes == {DefaultDatatype, 0, 3}
ThresholdMappings == {<<>>, << <<"datatype", 0, 0>> >>, << <<"datatype", 0, 3>> >>}

InitThreshold ==
    /\ \E e \in {"None", swapped_code}, c \in ThresholdCodes :
          LET v == PutDatatype(init_empty(e), c) IN
          /\ objs = [h \in Slots |-> IF h = "a"
                        THEN [data |-> "a", order |-> v.order,
                              extra |-> "a", made |-> "empty"]
                        ELSE NULL]
          /\ mem = [x \in Addrs |-> IF x \in {"a", "buf"} THEN v.block ELSE NULL]
    /\ dicts = [h \in Slots |-> {}]
    /\ last = NoOp
    /\ nops = 0
    /\ probe = NULL
    /\ InitEnv(ThresholdLevels)

NextThreshold ==
    \/ \E l \in ThresholdLevels : SetErrorLevel(l)
    \/ \E e \in {"None", native_code, swapped_code}, check \in BOOLEAN :
          FromBytes("b", e, check, DefaultErrorLevel)
    \/ \E m \in ThresholdMappings, e \in {"None", swapped_code},
          check \in BOOLEAN : FromMapping("b", m, e, check)

SpecThreshold == InitThreshold /\ [][NextThreshold]_vars

\* C17: a construction from bytes or from a mapping with checks enabled
\* raises exactly when a report's severity reaches the threshold configured
\* in imageglobals at the time of the call, and raises that report's error
C17_ConfiguredThreshold ==
    (last.op \in {"from_bytes", "from_mapping"} /\ last.arg[2])
        => last.err = FirstRaise(last.reports, imageglobals.error_level)

\* the same against the threshold check_fix took as its default when the
\* class was defined
ThresholdAtDefinition ==
    (last.op \in {"from_bytes", "from_mapping"} /\ last.arg[2])
        => last.err = FirstRaise(last.reports, check_fix_defaults.error_level)

\* ------------------------------------------------- inference on round trip
\* the headers whose bytes are the caller's buffer: one for each byte order
HeaderOfBuf(o) == HdrVal(o, mem["buf"], {})

\* the condition of the claim on H: rank 1..7, or rank 0 with sizeof_hdr 348
WellRanked(H) ==
    \/ GetDim(H, 0) \in 1..MaxNdim
    \/ GetDim(H, 0) = 0 /\ GetSizeofHdr(H) = HdrSize

\* the checks find nothing to repair or to reject in H
NothingToFix(H) ==
    /\ check_fix(H, 1).err = ""
    /\ check_fix(H, 1).hdr = H

\* the header built by the last call has the byte order and the fields of H
BuiltLike(H) ==
    /\ last.err = ""
    /\ Live(last.h)
    /\ endianness(Val(last.h)) = endianness(H)
    /\ Val(last.h).block = H.block
    /\ CanonBlock(Val(last.h)) = CanonBlock(H)

\* C18 as stated: the header built from H.binaryblock with no endianness
\* given has H's byte order and H's field values, for every H of rank 1..7 or
\* of rank 0 with sizeof_hdr 348
C18_AnyConstruction ==
    (last.op = "from_bytes" /\ last.arg[1] = "None" /\ BlockLen(mem["buf"]) = HdrSize)
        => \A o \in {native_code, swapped_code} :
              WellRanked(HeaderOfBuf(o)) => BuiltLike(HeaderOfBuf(o))

\* C18, amended: the same when the construction is made with checks disabled,
\* or when H holds nothing for the checks to repair or reject
C18_Inference ==
    (last.op = "from_bytes" /\ last.arg[1] = "None" /\ BlockLen(mem["buf"]) = HdrSize)
        => \A o \in {native_code, swapped_code} :
              (WellRanked(HeaderOfBuf(o))
                 /\ (~last.arg[2] \/ NothingToFix(HeaderOfBuf(o))))
                    => BuiltLike(HeaderOfBuf(o))

\* a byte-swapped header of rank 0, told from a native one by sizeof_hdr
\* alone, has been built from its bytes with checks on
C18_Witness ==
    /\ last.op = "from_bytes" /\ last.arg = <<"None", TRUE>>
    /\ last.err = ""
    /\ WellRanked(HeaderOfBuf(swapped_code))
    /\ GetDim(HeaderOfBuf(swapped_code), 0) = 0
    /\ BuiltLike(HeaderOfBuf(swapped_code))

\* the same for a byte-swapped header of rank 2
InferredSwappedRanked ==
    /\ last.op = "from_bytes" /\ last.arg[1] = "None"
    /\ GetDim(HeaderOfBuf(swapped_code), 0) = 2
    /\ BuiltLike(HeaderOfBuf(swapped_code))

\* C19: on a header whose data type code is not in the registry,
\* get_data_dtype, read_raw_data, write_raw_data and write_data fail, and
\* with HeaderDataError, never with another kind of error
C19_LookupError ==
    (/\ last.op \in {"get_data_dtype", "read_raw_data", "write_raw_data", "write_data"}
     /\ ~HasCode(GetDatatype(last.pre)))
        => last.err = "HeaderDataError"

\* what the four methods do on such a header: the lookup fails with KeyError,
\* unless write_raw_data has refused the array's shape, or failed to place
\* the stream, before reaching it
LookupRaisesKeyError ==
    (/\ last.op \in {"get_data_dtype", "read_raw_data", "write_raw_data", "write_data"}
     /\ ~HasCode(GetDatatype(last.pre)))
        => \/ last.err = "KeyError"
           \/ /\ last.op = "write_raw_data"
              /\ last.err = "HeaderDataError"
              /\ last.arg.shape # get_data_shape(last.pre)
           \/ /\ last.op = "write_raw_data"
              /\ last.err = "IOError"
              /\ ~last.ret.before.seekable

====
